---- MODULE Spec2Model ----
(***************************************************************************)
(* Model of OP.py: nematic order parameters from molecular directors.      *)
(*                                                                         *)
(* main() runs compute_Q_tensor and then compute_order_parameters on the   *)
(* director array of a trajectory.  Both functions are loops over frames;  *)
(* the model follows them loop step by loop step.                          *)
(*                                                                         *)
(* Numbers.  The code computes in float64.  The model computes in exact    *)
(* rational arithmetic: a number is a record [n, d] in lowest terms with   *)
(* d > 0, and [n |-> 0, d |-> 0] is NaN, the result float64 gives for 0/0  *)
(* and for every operation with a NaN operand.  Rounding is not modelled.  *)
(* Square roots are taken of perfect squares only, so the directors of the *)
(* model are vectors with a rational Euclidean norm.                       *)
(***************************************************************************)
EXTENDS Integers, Sequences, FiniteSets, TLC

(***************************************************************************)
(* Bounds of the model.                                                    *)
(***************************************************************************)
\* the largest number of frames of a trajectory
MaxFrames == 3

\* the largest number of directors (frames x molecules) of a trajectory
MaxDirectors == 4

\* the largest number of molecules of a frame in the trajectories made of a
\* frame and its mirror image
MaxMolecules == 3

\* the largest number of times each of +x, -x, +y, -y, +z, -z occurs in a frame
MaxCopies == 2

\* the largest number of data rows of Mtot.xvg and of energy.xvg
MaxSamples == 3

(***************************************************************************)
(* float64 arithmetic, as exact rationals with NaN.                        *)
(***************************************************************************)
Abs(x) == IF x < 0 THEN -x ELSE x

RECURSIVE Gcd(_, _)
Gcd(a, b) == IF b = 0 THEN a ELSE Gcd(b, a % b)

NaN == [n |-> 0, d |-> 0]

\* the content of a slot of np.empty that has not been assigned yet
Unwritten == [n |-> 1, d |-> 0]

IsNaN(x) == x.d = 0

Finite(x) == x.d > 0

Frac(p, q) ==
    IF q = 0 THEN NaN
    ELSE LET g == Gcd(Abs(p), Abs(q))
             s == IF q < 0 THEN -1 ELSE 1
         IN [n |-> (s * p) \div g, d |-> (s * q) \div g]

R(k) == [n |-> k, d |-> 1]

RAdd(x, y) == IF IsNaN(x) \/ IsNaN(y) THEN NaN
              ELSE Frac(x.n * y.d + y.n * x.d, x.d * y.d)

RSub(x, y) == IF IsNaN(x) \/ IsNaN(y) THEN NaN
              ELSE Frac(x.n * y.d - y.n * x.d, x.d * y.d)

RMul(x, y) == IF IsNaN(x) \/ IsNaN(y) THEN NaN
              ELSE Frac(x.n * y.n, x.d * y.d)

\* a finite non-zero number divided by zero is an infinity in float64; the
\* code only ever divides zero by zero, and the model has no other case
RDiv(x, y) == IF IsNaN(x) \/ IsNaN(y) THEN NaN
              ELSE Frac(x.n * y.d, x.d * y.n)

\* comparisons with a NaN operand are false, as in IEEE 754
RLe(x, y) == Finite(x) /\ Finite(y) /\ x.n * y.d <= y.n * x.d

RLt(x, y) == Finite(x) /\ Finite(y) /\ x.n * y.d < y.n * x.d

REq(x, y) == Finite(x) /\ Finite(y) /\ x = y

ISqrt(k) == CHOOSE r \in 0..k : r * r = k

\* np.sqrt of a number whose numerator and denominator are perfect squares
RSqrt(x) == IF IsNaN(x) THEN NaN ELSE Frac(ISqrt(x.n), ISqrt(x.d))

RECURSIVE RSum(_)
RSum(s) == IF s = <<>> THEN R(0) ELSE RAdd(Head(s), RSum(Tail(s)))

RPow(x, k) == IF k = 2 THEN RMul(x, x)
              ELSE IF k = 3 THEN RMul(x, RMul(x, x))
              ELSE RMul(RMul(x, x), RMul(x, x))

(***************************************************************************)
(* Vectors and matrices (1-based; the code's index a is a+1 here).         *)
(***************************************************************************)
Vec(x, y, z) == <<R(x), R(y), R(z)>>

Dot(u, v) == RAdd(RAdd(RMul(u[1], v[1]), RMul(u[2], v[2])), RMul(u[3], v[3]))

\* np.linalg.norm of one vector
Norm(v) == RSqrt(Dot(v, v))

VScale(v, c) == [a \in 1..3 |-> RMul(v[a], c)]

VDiv(v, c) == [a \in 1..3 |-> RDiv(v[a], c)]

MatVec(Q, v) == [a \in 1..3 |-> Dot(Q[a], v)]

ZeroMatrix == [a \in 1..3 |-> [b \in 1..3 |-> R(0)]]

(***************************************************************************)
(* Inputs: the raw directors a frame can hold.  (0,0,1) has unit length,    *)
(* (0,0,2) is the same direction with length 2, (3,4,0) has length 5 and   *)
(* lies off the axes, (0,0,0) is the degenerate director.  A trajectory is  *)
(* an array of shape (frames, molecules, 3), the arrays ensure_type        *)
(* (line 10) lets through; the molecule count may be 0.                    *)
(***************************************************************************)
Directors == {Vec(0, 0, 1), Vec(0, 0, 2), Vec(3, 4, 0), Vec(0, 0, 0)}

Frames(N) == [1..N -> Directors]

\* the shapes (frames, molecules per frame) of the director array
Shapes == {s \in (1..MaxFrames) \X (0..MaxDirectors) : s[1] * s[2] <= MaxDirectors}

Trajectories == UNION {[1..s[1] -> Frames(s[2])] : s \in Shapes}

(***************************************************************************)
(* np.linalg.eigh.  The routine is external; it is modelled by what it     *)
(* returns for a real symmetric matrix: the eigenvalues in ascending order *)
(* and, as columns, an orthonormal set of eigenvectors.  The sign of each  *)
(* eigenvector, and the basis chosen inside a repeated eigenvalue's        *)
(* eigenspace, depend on the LAPACK build: every choice among the unit     *)
(* vectors below is a possible result.                                     *)
(***************************************************************************)
Axes == <<<<R(0), R(0), R(1)>>, <<R(1), R(0), R(0)>>, <<R(0), R(1), R(0)>>,
          <<Frac(3, 5), Frac(4, 5), R(0)>>, <<Frac(4, 5), Frac(-3, 5), R(0)>>>>

Signs == {R(1), R(-1)}

UnitVectors == {VScale(Axes[j], s) : j \in 1..Len(Axes), s \in Signs}

\* the ordered triples of pairwise orthogonal axes: axes 1, 2, 3 are z, x, y,
\* and axes 4 and 5 are x and y turned about z
OrthoTriples ==
    {b \in (1..5) \X (1..5) \X (1..5) : {b[1], b[2], b[3]} \in {{1, 2, 3}, {1, 4, 5}}}

\* the eigenvalue of Q that the unit vector v belongs to (the Rayleigh quotient
\* v.Qv), NaN when v is no eigenvector of Q
Eigenvalue(Q, v) ==
    LET Qv == MatVec(Q, v)
        q == Dot(v, Qv)
    IN IF Qv = VScale(v, q) THEN q ELSE NaN

MatFinite(Q) == \A a, b \in 1..3 : Finite(Q[a][b])

NaNVector == <<NaN, NaN, NaN>>

\* the results eigh can return: w the eigenvalues, v the eigenvector columns
Eigh(Q) ==
    IF ~MatFinite(Q)
    THEN {[w |-> NaNVector, v |-> <<NaNVector, NaNVector, NaNVector>>]}
    ELSE LET lam == <<Eigenvalue(Q, Axes[1]), Eigenvalue(Q, Axes[2]),
                      Eigenvalue(Q, Axes[3]), Eigenvalue(Q, Axes[4]),
                      Eigenvalue(Q, Axes[5])>>
             B == {b \in OrthoTriples :
                     RLe(lam[b[1]], lam[b[2]]) /\ RLe(lam[b[2]], lam[b[3]])}
         IN {[w |-> <<lam[b[1]], lam[b[2]], lam[b[3]]>>,
              v |-> <<VScale(Axes[b[1]], s[1]), VScale(Axes[b[2]], s[2]),
                      VScale(Axes[b[3]], s[3])>>] :
             b \in B, s \in Signs \X Signs \X Signs}

\* eigh raises LinAlgError when LAPACK reports no convergence; builds differ
\* on whether a matrix holding NaN does so or yields NaN results
EighMayRaise(Q) == ~MatFinite(Q)

\* ArgMax of the absolute values: the first index holding the eigenvalue of
\* largest magnitude
ArgMax_Magnitude(w) ==
    IF \E j \in 1..Len(w) : IsNaN(w[j])
    THEN CHOOSE j \in 1..Len(w) : IsNaN(w[j]) /\ \A l \in 1..(j - 1) : ~IsNaN(w[l])
    ELSE LET magnitude(x) == IF RLt(x, R(0)) THEN RSub(R(0), x) ELSE x
         IN CHOOSE j \in 1..Len(w) :
               /\ \A l \in 1..Len(w) : RLe(magnitude(w[l]), magnitude(w[j]))
               /\ \A l \in 1..(j - 1) : RLt(magnitude(w[l]), magnitude(w[j]))

\* ArgMax returning the last index holding the maximum
ArgMax_Last(w) ==
    IF \E j \in 1..Len(w) : IsNaN(w[j])
    THEN CHOOSE j \in 1..Len(w) : IsNaN(w[j]) /\ \A l \in 1..(j - 1) : ~IsNaN(w[l])
    ELSE CHOOSE j \in 1..Len(w) :
            /\ \A l \in 1..Len(w) : RLe(w[l], w[j])
            /\ \A l \in (j + 1)..Len(w) : RLt(w[l], w[j])

\* ArgMax with the comparison turned round: the first index holding the minimum
ArgMin(w) ==
    IF \E j \in 1..Len(w) : IsNaN(w[j])
    THEN CHOOSE j \in 1..Len(w) : IsNaN(w[j]) /\ \A l \in 1..(j - 1) : ~IsNaN(w[l])
    ELSE CHOOSE j \in 1..Len(w) :
            /\ \A l \in 1..Len(w) : RLe(w[j], w[l])
            /\ \A l \in 1..(j - 1) : RLt(w[j], w[l])

\* np.argmax: the first index holding the maximum; a NaN counts as the maximum
ArgMax(w) ==
    IF \E j \in 1..Len(w) : IsNaN(w[j])
    THEN CHOOSE j \in 1..Len(w) : IsNaN(w[j]) /\ \A l \in 1..(j - 1) : ~IsNaN(w[l])
    ELSE CHOOSE j \in 1..Len(w) :
            /\ \A l \in 1..Len(w) : RLe(w[l], w[j])
            /\ \A l \in 1..(j - 1) : RLt(w[l], w[j])

\* Mean without the division by the number of entries
Mean_Sum(s) == IF Len(s) = 0 THEN NaN ELSE RSum(s)

\* np.mean; of an empty array it is 0/0
Mean(s) == RDiv(RSum(s), R(Len(s)))

(***************************************************************************)
(* compute_Q_tensor                                                        *)
(***************************************************************************)
\* NormalizeDirectors without the division by the norm
NormalizeDirectors_Raw(directors) == [m \in 1..Len(directors) |-> directors[m]]

\* line 15: directors / np.linalg.norm(directors, axis=1)[:, np.newaxis]
NormalizeDirectors(directors) ==
    [m \in 1..Len(directors) |-> VDiv(directors[m], Norm(directors[m]))]

\* AccumulateVector without the - 1.0 of the three diagonal statements
AccumulateVector_NoDelta(Q, vector) ==
    [a \in 1..3 |-> [b \in 1..3 |->
        RAdd(Q[a][b], RMul(RMul(R(3), vector[a]), vector[b]))]]

\* AccumulateVector with a wrong index in the statement for Q_ab[n, 1, 0]
AccumulateVector_Typo(Q, vector) ==
    [a \in 1..3 |-> [b \in 1..3 |->
        IF a = b
        THEN RAdd(Q[a][b], RSub(RMul(RMul(R(3), vector[a]), vector[b]), R(1)))
        ELSE IF a = 2 /\ b = 1
        THEN RAdd(Q[a][b], RMul(RMul(R(3), vector[2]), vector[2]))
        ELSE RAdd(Q[a][b], RMul(RMul(R(3), vector[a]), vector[b]))]]

\* lines 17-25: the nine += statements for one normalised vector
AccumulateVector(Q, vector) ==
    [a \in 1..3 |-> [b \in 1..3 |->
        IF a = b
        THEN RAdd(Q[a][b], RSub(RMul(RMul(R(3), vector[a]), vector[b]), R(1)))
        ELSE RAdd(Q[a][b], RMul(RMul(R(3), vector[a]), vector[b]))]]

\* AccumulateInto with one accumulator shared by all frames
AccumulateInto_Shared(Q, frame, vector) ==
    [Q EXCEPT ![1] = AccumulateVector(Q[1], vector)]

\* lines 17-25: the statements update slice n of the array
AccumulateInto(Q, frame, vector) ==
    [Q EXCEPT ![frame] = AccumulateVector(Q[frame], vector)]

\* QDivisor without the factor 2.0
QDivisor_Single(n_mol) == R(n_mol)

\* line 26: the divisor of Q_ab /= (2.0 * all_directors.shape[1])
QDivisor(n_mol) == RMul(R(2), R(n_mol))

MatDiv(Q, c) == [a \in 1..3 |-> [b \in 1..3 |-> RDiv(Q[a][b], c)]]

VARIABLES
    all_directors,   \* the input array: frames x molecules x 3
    pc,              \* position in main()
    Q_ab,            \* the tensor array of compute_Q_tensor, one matrix per frame
    n,               \* frame index of the loop of line 13
    normed_vectors,  \* line 15, for frame n
    k,               \* index into normed_vectors of the loop of line 16
    i,               \* frame index of the loop of line 44
    eigenvalues,     \* line 46, for frame i
    max_index,       \* line 47, for frame i (1-based; 0 before the first frame)
    global_director, \* lines 48-50, for frame i
    P1, P2, P3, P4,  \* the result arrays of compute_order_parameters
    used_director,   \* history: the global_director each frame was evaluated with
    used_eigenvalues, \* history: the eigenvalues eigh returned for each frame
    run,             \* which run of the pipeline on all_directors this is
    first,           \* history: what the first run returned, once a second has begun
    times,           \* line 88: traj.time, the simulation time of every frame
    files,           \* the files written so far, by the name of their parameter
    \* Ps.py
    ps_pc,           \* position in compute_Ps
    window,          \* the parameter window, reassigned at line 97
    final_value_only, \* the parameter final_value_only
    time,            \* lines 89, 100, 104
    TotDip,          \* lines 90, 99, 105
    Vol,             \* lines 93, 101, 106
    Ps,              \* line 108
    ps_csv,          \* the rows of Ps.csv, line 111
    \* P1.py
    p1_pc,           \* position in main
    disk,            \* the files of the working directory: name -> who wrote it
    gmx,             \* how gmx dipoles ends when it is run in this invocation
    stale,           \* index into the list of line 103
    loaded           \* history: who wrote the files compute_P1 has read

vars == <<all_directors, pc, Q_ab, n, normed_vectors, k, i, eigenvalues, max_index,
          global_director, P1, P2, P3, P4, used_director, used_eigenvalues, run, first,
          times, files, ps_pc, window, final_value_only, time, TotDip, Vol, Ps, ps_csv,
          p1_pc, disk, gmx, stale, loaded>>

n_frames == Len(all_directors)

n_molecules == Len(all_directors[1])

opvars == <<i, eigenvalues, max_index, global_director, P1, P2, P3, P4, used_director,
            used_eigenvalues>>

runvars == <<run, first>>

outvars == <<times, files>>

psvars == <<ps_pc, window, final_value_only, time, TotDip, Vol, Ps, ps_csv>>

p1vars == <<p1_pc, disk, gmx, stale, loaded>>

\* the state of the other two programs, which OP.py neither reads nor writes
scriptvars == <<psvars, p1vars>>

\* Ps.py is not running
PsIdle ==
    /\ ps_pc = "idle"
    /\ window = 0
    /\ final_value_only = FALSE
    /\ time = <<>> /\ TotDip = <<>> /\ Vol = <<>> /\ Ps = <<>>
    /\ ps_csv = <<>>

\* P1.py is not running
P1Idle ==
    /\ p1_pc = "idle"
    /\ disk = <<>>
    /\ gmx = "ok"
    /\ stale = 1
    /\ loaded = {}

\* line 88: traj.time of a trajectory whose frames are stamped 0, 1, 2, ...
FrameNumbers(frames) == [f \in 1..frames |-> R(f - 1)]

\* a call that keeps the array an earlier call returned and adds to it
AllocateQ_Retained(previous, frames) ==
    IF Len(previous) = frames THEN previous ELSE [f \in 1..frames |-> ZeroMatrix]

\* line 12: np.zeros builds a new array at every call, whatever array an
\* earlier call returned (previous; <<>> when there was none)
AllocateQ(previous, frames) == [f \in 1..frames |-> ZeroMatrix]

\* line 46: eigh is a function of its argument.  A second run that hands it
\* the matrix the first run handed it for this frame gets what the first run
\* got: the same eigenvalues and the same selected column.
SameSolver(frame, w, column) ==
    IF run = 1 THEN TRUE
    ELSE IF Q_ab[frame] # first.Q_ab[frame] THEN TRUE
    ELSE /\ w = first.eigenvalues[frame]
         /\ column = first.global_director[frame]

\* line 46: eigh raises in a second run only for a matrix it was not handed,
\* and did not return for, in the first
SameSolverRaises(frame) ==
    IF run = 1 THEN TRUE ELSE Q_ab[frame] # first.Q_ab[frame]

\* a normalisation done in place, directors /= norm, on the view of the
\* caller's array
ArgumentAfterNormalize_InPlace(argument, frame, normed) ==
    [argument EXCEPT ![frame] = normed]

\* line 15: directors / norm builds a new array, bound to normed_vectors; the
\* caller's array, of which directors is a view, keeps its values
ArgumentAfterNormalize(argument, frame, normed) == argument

\* an inner loop that passes over every other vector
NextMolecule_Skip(j) == j + 2

\* line 16: the for loop over the vectors of a frame takes them one by one
NextMolecule(j) == j + 1

\* a frame loop that never leaves a frame of index 2 or more
NextFrame_Stuck(j) == IF j >= 2 THEN j ELSE j + 1

\* lines 13 and 44: the for loops over the frames take them one by one
NextFrame(j) == j + 1

\* main is entered with one of the given arrays; lines 10-12
InitFrom(inputs) ==
    /\ all_directors \in inputs
    /\ pc = "Q_frame"
    /\ Q_ab = AllocateQ(<<>>, Len(all_directors))
    /\ n = 1
    /\ normed_vectors = <<>>
    /\ k = 1
    /\ i = 1
    /\ eigenvalues = <<>>
    /\ max_index = 0
    /\ global_director = <<>>
    /\ P1 = <<>> /\ P2 = <<>> /\ P3 = <<>> /\ P4 = <<>>
    /\ used_director = <<>>
    /\ used_eigenvalues = <<>>
    /\ run = 1
    /\ first = <<>>
    /\ times = FrameNumbers(Len(all_directors))
    /\ files = <<>>
    /\ PsIdle
    /\ P1Idle

Init == InitFrom(Trajectories)

\* lines 13-15: next frame of the outer loop, normalise its directors
QNormalize ==
    /\ pc = "Q_frame"
    /\ n <= n_frames
    /\ normed_vectors' = NormalizeDirectors(all_directors[n])
    /\ all_directors' = ArgumentAfterNormalize(all_directors, n, normed_vectors')
    /\ k' = 1
    /\ pc' = "Q_vector"
    /\ UNCHANGED <<runvars, outvars, scriptvars, Q_ab, n, opvars>>

\* lines 16-25: one iteration of the inner loop
QAccumulate ==
    /\ pc = "Q_vector"
    /\ k <= Len(normed_vectors)
    /\ Q_ab' = AccumulateInto(Q_ab, n, normed_vectors[k])
    /\ k' = NextMolecule(k)
    /\ UNCHANGED <<all_directors, runvars, outvars, scriptvars, pc, n, normed_vectors, opvars>>

\* line 16: the inner loop is exhausted, back to the outer loop
QNextFrame ==
    /\ pc = "Q_vector"
    /\ k > Len(normed_vectors)
    /\ n' = NextFrame(n)
    /\ pc' = "Q_frame"
    /\ UNCHANGED <<all_directors, runvars, outvars, scriptvars, Q_ab, normed_vectors, k, opvars>>

\* lines 26-27 and 36-42: the outer loop is exhausted; divide every frame's
\* tensor, return, and allocate the result arrays of compute_order_parameters
QDivide ==
    /\ pc = "Q_frame"
    /\ n > n_frames
    /\ Q_ab' = [f \in 1..n_frames |-> MatDiv(Q_ab[f], QDivisor(n_molecules))]
    /\ P1' = [f \in 1..n_frames |-> Unwritten]
    /\ P2' = [f \in 1..n_frames |-> Unwritten]
    /\ P3' = [f \in 1..n_frames |-> Unwritten]
    /\ P4' = [f \in 1..n_frames |-> Unwritten]
    /\ i' = 1
    /\ pc' = "OP_frame"
    /\ UNCHANGED <<all_directors, runvars, outvars, scriptvars, n, normed_vectors, k, eigenvalues,
                   max_index, global_director, used_director, used_eigenvalues>>

(***************************************************************************)
(* compute_order_parameters                                                *)
(***************************************************************************)
\* line 54: np.dot(all_directors[i], global_director)
CosThetas(directors, d) == [m \in 1..Len(directors) |-> Dot(directors[m], d)]

\* lines 57-60: the four Legendre polynomials of one cosine
Legendre1(c) == c

\* Legendre2 with + 1 for - 1
Legendre2_PlusOne(c) == RDiv(RAdd(RMul(R(3), RPow(c, 2)), R(1)), R(2))

\* Legendre2 without the division by 2
Legendre2_NoHalf(c) == RSub(RMul(R(3), RPow(c, 2)), R(1))

Legendre2(c) == RDiv(RSub(RMul(R(3), RPow(c, 2)), R(1)), R(2))

\* Legendre3 with the exponent 2 in its leading term
Legendre3_Square(c) == RDiv(RSub(RMul(R(5), RPow(c, 2)), RMul(R(3), c)), R(2))

Legendre3(c) == RDiv(RSub(RMul(R(5), RPow(c, 3)), RMul(R(3), c)), R(2))

\* Legendre4 without the constant term
Legendre4_NoConstant(c) ==
    RDiv(RSub(RMul(R(35), RPow(c, 4)), RMul(R(30), RPow(c, 2))), R(8))

Legendre4(c) ==
    RDiv(RAdd(RSub(RMul(R(35), RPow(c, 4)), RMul(R(30), RPow(c, 2))), R(3)), R(8))

\* StoreResult filling the array from its far end
StoreResult_Reversed(P, slot, value) == [P EXCEPT ![Len(P) + 1 - slot] = value]

\* lines 57-60: the assignment P[i] = value
StoreResult(P, slot, value) == [P EXCEPT ![slot] = value]

\* SelectDirector dividing by the sum of the absolute components instead of
\* the Euclidean norm
SelectDirector_L1(e) ==
    LET column == e.v[ArgMax(e.w)]
        magnitude(x) == IF RLt(x, R(0)) THEN RSub(R(0), x) ELSE x
    IN VDiv(column, RSum([a \in 1..3 |-> magnitude(column[a])]))

\* lines 47-50: pick the column of the largest eigenvalue and normalise it
SelectDirector(e) ==
    LET column == e.v[ArgMax(e.w)]
    IN VDiv(column, Norm(column))

\* lines 44-50: next frame of the loop, eigen-decomposition returns
OPDiagonalize ==
    /\ pc = "OP_frame"
    /\ i <= n_frames
    /\ \E e \in Eigh(Q_ab[i]) :
          /\ SameSolver(i, e.w, SelectDirector(e))
          /\ eigenvalues' = e.w
          /\ max_index' = ArgMax(e.w)
          /\ global_director' = SelectDirector(e)
    /\ pc' = "OP_legendre"
    /\ UNCHANGED <<all_directors, runvars, outvars, scriptvars, Q_ab, n, normed_vectors, k, i, P1, P2, P3,
                   P4, used_director, used_eigenvalues>>

\* line 46: eigh raises; nothing in main catches it
OPEighRaises ==
    /\ pc = "OP_frame"
    /\ i <= n_frames
    /\ EighMayRaise(Q_ab[i])
    /\ SameSolverRaises(i)
    /\ pc' = "LinAlgError"
    /\ UNCHANGED <<all_directors, runvars, outvars, scriptvars, Q_ab, n, normed_vectors, k, opvars>>

\* lines 54-60: cosines and Legendre averages of frame i
OPLegendre ==
    /\ pc = "OP_legendre"
    /\ LET cos_thetas == CosThetas(all_directors[i], global_director)
           avg(L(_)) == Mean([m \in 1..Len(cos_thetas) |-> L(cos_thetas[m])])
       IN /\ P1' = StoreResult(P1, i, avg(Legendre1))
          /\ P2' = StoreResult(P2, i, avg(Legendre2))
          /\ P3' = StoreResult(P3, i, avg(Legendre3))
          /\ P4' = StoreResult(P4, i, avg(Legendre4))
    /\ used_director' = Append(used_director, global_director)
    /\ used_eigenvalues' = Append(used_eigenvalues, eigenvalues)
    /\ i' = NextFrame(i)
    /\ pc' = "OP_frame"
    /\ UNCHANGED <<all_directors, runvars, outvars, scriptvars, Q_ab, n, normed_vectors, k, eigenvalues,
                   max_index, global_director>>

\* line 62: the loop is exhausted, the four arrays are returned
OPReturn ==
    /\ pc = "OP_frame"
    /\ i > n_frames
    /\ pc' = "done"
    /\ UNCHANGED <<all_directors, runvars, outvars, scriptvars, Q_ab, n, normed_vectors, k, opvars>>

\* line 62: the value handed to the caller
ReturnValue == <<P1, P2, P3, P4>>

\* line 62: the local variables the components of the returned tuple are
ReturnNames == <<"P1", "P2", "P3", "P4">>

Next ==
    \/ QNormalize
    \/ QAccumulate
    \/ QNextFrame
    \/ QDivide
    \/ OPDiagonalize
    \/ OPEighRaises
    \/ OPLegendre
    \/ OPReturn

Spec == Init /\ [][Next]_vars

\* the run is over: the arrays are returned (line 62) or the exception of
\* eigh has left the function (line 46)
Terminated == pc \in {"done", "LinAlgError"}

\* main is one sequential thread that waits for nothing: while a statement
\* remains to be executed, one is executed.  This is WF_vars(Next) with
\* ENABLED <<Next>>_vars written out: a statement remains exactly when the
\* run is not over.
SpecFair == Spec /\ (<>[](~Terminated) => []<><<Next>>_vars)

(***************************************************************************)
(* The pipeline on a frame followed by its mirror image: every director of *)
(* the second frame is the director of the first at the same place,        *)
(* reversed.                                                               *)
(***************************************************************************)
Negated(frame) == [m \in 1..Len(frame) |-> VScale(frame[m], R(-1))]

ReversalTrajectories ==
    {<<frame, Negated(frame)>> : frame \in UNION {Frames(N) : N \in 0..MaxMolecules}}

InitReversal == InitFrom(ReversalTrajectories)

SpecReversal == InitReversal /\ [][Next]_vars

(***************************************************************************)
(* The two functions called a second time on the array they were called on *)
(***************************************************************************)
Rerun ==
    /\ pc = "done"
    /\ run = 1
    /\ first' = [all_directors |-> all_directors, Q_ab |-> Q_ab,
                 P1 |-> P1, P2 |-> P2, P3 |-> P3, P4 |-> P4,
                 eigenvalues |-> used_eigenvalues,
                 global_director |-> used_director]
    /\ run' = 2
    /\ Q_ab' = AllocateQ(Q_ab, n_frames)
    /\ n' = 1
    /\ normed_vectors' = <<>>
    /\ k' = 1
    /\ i' = 1
    /\ eigenvalues' = <<>>
    /\ max_index' = 0
    /\ global_director' = <<>>
    /\ P1' = <<>> /\ P2' = <<>> /\ P3' = <<>> /\ P4' = <<>>
    /\ used_director' = <<>>
    /\ used_eigenvalues' = <<>>
    /\ pc' = "Q_frame"
    /\ UNCHANGED <<all_directors, outvars, scriptvars>>

NextRerun == Next \/ Rerun

SpecRerun == Init /\ [][NextRerun]_vars

(***************************************************************************)
(* The pipeline on one frame of unit directors: directors along the axes,  *)
(* or directors among (0,0,1), (3,4,0)/5 and (4,-3,0)/5.                   *)
(***************************************************************************)
AxisDirectors == {Vec(1, 0, 0), Vec(0, 1, 0), Vec(0, 0, 1), Vec(0, 0, -1)}

TiltedDirectors ==
    {Vec(0, 0, 1), <<Frac(3, 5), Frac(4, 5), R(0)>>, <<Frac(4, 5), Frac(-3, 5), R(0)>>}

UnitTrajectories ==
    UNION {{<<frame>> : frame \in [1..N -> AxisDirectors] \cup [1..N -> TiltedDirectors]} :
              N \in 0..MaxMolecules}

InitUnit == InitFrom(UnitTrajectories)

SpecUnit == InitUnit /\ [][Next]_vars

(***************************************************************************)
(* main to its end: after the two functions have returned, the four tables *)
(* are written, P2 first.                                                  *)
(***************************************************************************)
\* line 88: traj.time of trajectories saved every 1 or every 5 time units
TimeColumns(frames) ==
    {[f \in 1..frames |-> R(step * (f - 1))] : step \in {1, 5}}

\* np.column_stack pairing row r of the first column with row r of the second
\* counted from the end
ColumnStack_Mirrored(column1, column2) ==
    [r \in 1..Len(column1) |-> <<column1[r], column2[Len(column2) + 1 - r]>>]

\* lines 91, 96-98: np.column_stack((times, P)), one row per entry
ColumnStack(column1, column2) ==
    [r \in 1..Len(column1) |-> <<column1[r], column2[r]>>]

\* lines 93, 96-98: np.savetxt(name, data, header=header, comments=''); a file
\* of that name is replaced
SaveTxt(written, name, data, header) ==
    [f \in DOMAIN written \cup {name} |->
        IF f = name THEN [header |-> header, rows |-> data] ELSE written[f]]

InitWrite ==
    /\ all_directors \in Trajectories
    /\ times \in TimeColumns(Len(all_directors))
    /\ pc = "Q_frame"
    /\ Q_ab = AllocateQ(<<>>, Len(all_directors))
    /\ n = 1
    /\ normed_vectors = <<>>
    /\ k = 1
    /\ i = 1
    /\ eigenvalues = <<>>
    /\ max_index = 0
    /\ global_director = <<>>
    /\ P1 = <<>> /\ P2 = <<>> /\ P3 = <<>> /\ P4 = <<>>
    /\ used_director = <<>>
    /\ used_eigenvalues = <<>>
    /\ run = 1
    /\ first = <<>>
    /\ files = <<>>
    /\ PsIdle
    /\ P1Idle

\* lines 91-93
WriteP2 ==
    /\ pc = "done"
    /\ files' = SaveTxt(files, "P2", ColumnStack(times, P2), "time,P2")
    /\ pc' = "P2_written"
    /\ UNCHANGED <<all_directors, runvars, scriptvars, times, Q_ab, n, normed_vectors, k,
                   opvars>>

\* line 96
WriteP1 ==
    /\ pc = "P2_written"
    /\ files' = SaveTxt(files, "P1", ColumnStack(times, P1), "time,P1")
    /\ pc' = "P1_written"
    /\ UNCHANGED <<all_directors, runvars, scriptvars, times, Q_ab, n, normed_vectors, k,
                   opvars>>

\* line 97
WriteP3 ==
    /\ pc = "P1_written"
    /\ files' = SaveTxt(files, "P3", ColumnStack(times, P3), "time,P3")
    /\ pc' = "P3_written"
    /\ UNCHANGED <<all_directors, runvars, scriptvars, times, Q_ab, n, normed_vectors, k,
                   opvars>>

\* line 98
WriteP4 ==
    /\ pc = "P3_written"
    /\ files' = SaveTxt(files, "P4", ColumnStack(times, P4), "time,P4")
    /\ pc' = "exit"
    /\ UNCHANGED <<all_directors, runvars, scriptvars, times, Q_ab, n, normed_vectors, k,
                   opvars>>

NextWrite == Next \/ WriteP2 \/ WriteP1 \/ WriteP3 \/ WriteP4

SpecWrite == InitWrite /\ [][NextWrite]_vars

(***************************************************************************)
(* The pipeline entered with nested sequences that need not have the shape *)
(* (frames, molecules, 3): frames of different lengths, or vectors of two  *)
(* components.                                                             *)
(***************************************************************************)
TwoComponentVectors == {<<R(0), R(1)>>, <<R(3), R(4)>>}

RaggedTrajectories ==
    UNION {{<<f1, f2>> : f1 \in Frames(s[1]), f2 \in Frames(s[2])} :
              s \in {t \in (0..MaxDirectors) \X (0..MaxDirectors) :
                        t[1] # t[2] /\ t[1] + t[2] <= MaxDirectors}}

WrongAxisTrajectories ==
    UNION {[1..s[1] -> [1..s[2] -> TwoComponentVectors]] :
              s \in {t \in Shapes : t[2] >= 1}}

ShapeInputs == Trajectories \cup RaggedTrajectories \cup WrongAxisTrajectories

\* ensure_type checking only the length of the last axis
EnsureTypeAccepts_LastAxisOnly(val) ==
    \A f \in 1..Len(val) : \A m \in 1..Len(val[f]) : Len(val[f][m]) = 3

\* lines 10-11: ensure_type(..., dtype=np.float64, ndim=3, shape=(None, None,
\* 3)) returns the array when it converts to a float64 array of three axes,
\* which needs every frame to have the length of the first, and the last axis
\* has length 3; otherwise it raises
EnsureTypeAccepts(val) ==
    /\ \A f \in 1..Len(val) : Len(val[f]) = Len(val[1])
    /\ \A f \in 1..Len(val) : \A m \in 1..Len(val[f]) : Len(val[f][m]) = 3

InitShape ==
    /\ all_directors \in ShapeInputs
    /\ pc = "Q_entry"
    /\ Q_ab = <<>>
    /\ n = 1
    /\ normed_vectors = <<>>
    /\ k = 1
    /\ i = 1
    /\ eigenvalues = <<>>
    /\ max_index = 0
    /\ global_director = <<>>
    /\ P1 = <<>> /\ P2 = <<>> /\ P3 = <<>> /\ P4 = <<>>
    /\ used_director = <<>>
    /\ used_eigenvalues = <<>>
    /\ run = 1
    /\ first = <<>>
    /\ times = FrameNumbers(Len(all_directors))
    /\ files = <<>>
    /\ PsIdle
    /\ P1Idle

\* lines 10-12: ensure_type returns, Q_ab is allocated
QEnsureType ==
    /\ pc = "Q_entry"
    /\ EnsureTypeAccepts(all_directors)
    /\ Q_ab' = AllocateQ(Q_ab, Len(all_directors))
    /\ pc' = "Q_frame"
    /\ UNCHANGED <<all_directors, runvars, outvars, scriptvars, n, normed_vectors, k, opvars>>

\* lines 10-11: ensure_type raises; nothing in main catches it
QRejectShape ==
    /\ pc = "Q_entry"
    /\ ~EnsureTypeAccepts(all_directors)
    /\ pc' = "ValueError"
    /\ UNCHANGED <<all_directors, runvars, outvars, scriptvars, Q_ab, n, normed_vectors, k, opvars>>

NextShape == QEnsureType \/ QRejectShape \/ Next

SpecShape == InitShape /\ [][NextShape]_vars

(***************************************************************************)
(* The pipeline on one frame made of the six unit vectors along the axes:  *)
(* each of them the same number of times, or each once with some of them   *)
(* replaced by the degenerate director.                                    *)
(***************************************************************************)
SixAxes == <<Vec(1, 0, 0), Vec(-1, 0, 0), Vec(0, 1, 0), Vec(0, -1, 0),
             Vec(0, 0, 1), Vec(0, 0, -1)>>

\* each of the six vectors c times
Copies(c) == [m \in 1..(6 * c) |-> SixAxes[((m - 1) % 6) + 1]]

\* the six vectors, those at the places in S replaced by (0,0,0)
Damaged(S) == [m \in 1..6 |-> IF m \in S THEN Vec(0, 0, 0) ELSE SixAxes[m]]

IsotropicTrajectories ==
    {<<Copies(c)>> : c \in 1..MaxCopies} \cup {<<Damaged(S)>> : S \in SUBSET (1..6)}

InitIsotropic == InitFrom(IsotropicTrajectories)

SpecIsotropic == InitIsotropic /\ [][Next]_vars

(***************************************************************************)
(* The two functions called twice on a trajectory, or on a frame of the    *)
(* six unit vectors along the axes: the inputs whose tensors have two or   *)
(* three equal largest eigenvalues.                                        *)
(***************************************************************************)
InitTies == InitFrom(Trajectories \cup IsotropicTrajectories)

SpecTies == InitTies /\ [][NextRerun]_vars

(***************************************************************************)
(* Ps.py: compute_Ps, entered with Mtot.xvg and energy.xvg loaded (lines   *)
(* 88-93).  A sample is kept as its row number in its file; the quotient   *)
(* of line 108 is kept as the pair of samples it is formed from.           *)
(***************************************************************************)
\* OP.py is not running
OPIdle ==
    /\ all_directors = <<>>
    /\ pc = "idle"
    /\ Q_ab = <<>>
    /\ n = 1
    /\ normed_vectors = <<>>
    /\ k = 1
    /\ i = 1
    /\ eigenvalues = <<>>
    /\ max_index = 0
    /\ global_director = <<>>
    /\ P1 = <<>> /\ P2 = <<>> /\ P3 = <<>> /\ P4 = <<>>
    /\ used_director = <<>>
    /\ used_eigenvalues = <<>>
    /\ run = 1
    /\ first = <<>>
    /\ times = <<>>
    /\ files = <<>>

opyvars == <<all_directors, pc, Q_ab, n, normed_vectors, k, opvars, runvars, outvars>>

Min(a, b) == IF a <= b THEN a ELSE b

Max(a, b) == IF a >= b THEN a ELSE b

\* lines 99-101: the Python slice x[-w:].  For w > 0 it starts w places before
\* the end (at the beginning when w exceeds the length); -0 is 0, so for
\* w = 0 it starts at the beginning; for w < 0 it starts at place -w.
TailSlice(x, w) ==
    LET start == IF w > 0 THEN Max(Len(x) - w, 0) ELSE Min(0 - w, Len(x))
    IN [j \in 1..(Len(x) - start) |-> x[start + j]]

\* the windows the command line accepts (-w, type=int), within the bounds
Windows == (0 - MaxSamples)..(MaxSamples + 1)

\* lines 88-93: the rows of a file, numbered
Samples(rows) == [j \in 1..rows |-> j]

InitPs ==
    /\ OPIdle
    /\ P1Idle
    /\ ps_pc = "clamp"
    /\ window \in Windows
    /\ final_value_only \in BOOLEAN
    /\ \E rows \in 1..MaxSamples : time = Samples(rows) /\ TotDip = Samples(rows)
    /\ \E rows \in 1..MaxSamples : Vol = Samples(rows)
    /\ Ps = <<>>
    /\ ps_csv = <<>>

\* lines 96-97
PsClamp ==
    /\ ps_pc = "clamp"
    /\ window' = Min(window, Min(Len(TotDip), Len(Vol)))
    /\ ps_pc' = "truncate"
    /\ UNCHANGED <<opyvars, p1vars, final_value_only, time, TotDip, Vol, Ps, ps_csv>>

\* lines 99-101
PsTruncate ==
    /\ ps_pc = "truncate"
    /\ TotDip' = TailSlice(TotDip, window)
    /\ time' = TailSlice(time, window)
    /\ Vol' = TailSlice(Vol, window)
    /\ ps_pc' = "final"
    /\ UNCHANGED <<opyvars, p1vars, window, final_value_only, Ps, ps_csv>>

\* lines 103-106: final_value_only keeps the last time and dipole and the mean
\* of the volumes, here the one-element array of the volumes it is the mean of
PsFinalValue ==
    /\ ps_pc = "final"
    /\ final_value_only
    /\ Len(time) >= 1
    /\ time' = <<time[Len(time)]>>
    /\ TotDip' = <<TotDip[Len(TotDip)]>>
    /\ Vol' = <<Vol>>
    /\ ps_pc' = "compute"
    /\ UNCHANGED <<opyvars, p1vars, window, final_value_only, Ps, ps_csv>>

\* line 104: time[-1] of an empty array
PsFinalValueFails ==
    /\ ps_pc = "final"
    /\ final_value_only
    /\ Len(time) = 0
    /\ ps_pc' = "IndexError"
    /\ UNCHANGED <<opyvars, p1vars, window, final_value_only, time, TotDip, Vol, Ps,
                   ps_csv>>

\* line 103: the branch is not taken
PsKeepAll ==
    /\ ps_pc = "final"
    /\ ~final_value_only
    /\ ps_pc' = "compute"
    /\ UNCHANGED <<opyvars, p1vars, window, final_value_only, time, TotDip, Vol, Ps,
                   ps_csv>>

\* numpy broadcasting of two one-dimensional arrays
Broadcastable(a, b) == Len(a) = Len(b) \/ Len(a) = 1 \/ Len(b) = 1

\* line 108: the quotient, element by element, a one-element array stretched
PsCompute ==
    /\ ps_pc = "compute"
    /\ Broadcastable(TotDip, Vol)
    /\ Ps' = [j \in 1..(IF Len(TotDip) = 1 THEN Len(Vol) ELSE Len(TotDip)) |->
                 <<TotDip[IF Len(TotDip) = 1 THEN 1 ELSE j],
                   Vol[IF Len(Vol) = 1 THEN 1 ELSE j]>>]
    /\ ps_pc' = "write"
    /\ UNCHANGED <<opyvars, p1vars, window, final_value_only, time, TotDip, Vol, ps_csv>>

\* line 108: operands could not be broadcast together
PsComputeFails ==
    /\ ps_pc = "compute"
    /\ ~Broadcastable(TotDip, Vol)
    /\ ps_pc' = "ValueError"
    /\ UNCHANGED <<opyvars, p1vars, window, final_value_only, time, TotDip, Vol, Ps,
                   ps_csv>>

\* lines 110-111: column_stack of two arrays of one length, saved
PsWrite ==
    /\ ps_pc = "write"
    /\ Len(time) = Len(Ps)
    /\ ps_csv' = [j \in 1..Len(time) |-> <<time[j], Ps[j]>>]
    /\ ps_pc' = "done"
    /\ UNCHANGED <<opyvars, p1vars, window, final_value_only, time, TotDip, Vol, Ps>>

\* line 110: column_stack of arrays of different lengths
PsWriteFails ==
    /\ ps_pc = "write"
    /\ Len(time) # Len(Ps)
    /\ ps_pc' = "ValueError"
    /\ UNCHANGED <<opyvars, p1vars, window, final_value_only, time, TotDip, Vol, Ps,
                   ps_csv>>

NextPs ==
    \/ PsClamp
    \/ PsTruncate
    \/ PsFinalValue
    \/ PsFinalValueFails
    \/ PsKeepAll
    \/ PsCompute
    \/ PsComputeFails
    \/ PsWrite
    \/ PsWriteFails

SpecPs == InitPs /\ [][NextPs]_vars

(***************************************************************************)
(* P1.py: main, after the arguments are parsed (line 100).  The working    *)
(* directory is a map from file names to who wrote the file: an earlier    *)
(* invocation or this one.  File operations themselves succeed.            *)
(***************************************************************************)
\* line 103
StaleFiles == <<"dip.txt", "Mtot.xvg", "P1.csv">>

\* the working directories main can start in
Directories ==
    UNION {[names -> {"earlier"}] :
              names \in SUBSET {"dip.txt", "Mtot.xvg", "P1.csv", "tmp.tmp"}}

\* how the gmx dipoles of line 29 can end: it succeeds, gmx is not in PATH,
\* or it returns a non-zero exit status
GmxOutcomes == {"ok", "FileNotFoundError", "CalledProcessError"}

\* os.path.exists
Exists(directory, name) == name \in DOMAIN directory

\* a removal that leaves the file where it is
RemoveIfExists_Keep(directory, name) == directory

\* lines 104-105: if os.path.exists(f): os.remove(f)
RemoveIfExists(directory, name) ==
    [f \in DOMAIN directory \ {name} |-> directory[f]]

\* open(name, "w") and the output files of gmx: the file is created or
\* replaced, written by this invocation
WriteFile(directory, name) ==
    [f \in DOMAIN directory \cup {name} |-> IF f = name THEN "this" ELSE directory[f]]

InitP1 ==
    /\ OPIdle
    /\ PsIdle
    /\ p1_pc = "remove"
    /\ disk \in Directories
    /\ gmx \in GmxOutcomes
    /\ stale = 1
    /\ loaded = {}

\* lines 103-105: one iteration of the loop
P1RemoveStale ==
    /\ p1_pc = "remove"
    /\ stale <= Len(StaleFiles)
    /\ disk' = RemoveIfExists(disk, StaleFiles[stale])
    /\ stale' = stale + 1
    /\ UNCHANGED <<opyvars, psvars, p1_pc, gmx, loaded>>

\* line 103: the loop is exhausted
P1RemoveDone ==
    /\ p1_pc = "remove"
    /\ stale > Len(StaleFiles)
    /\ p1_pc' = "check"
    /\ UNCHANGED <<opyvars, psvars, disk, gmx, stale, loaded>>

\* line 107: run gmx dipoles unless both files exist
P1Check ==
    /\ p1_pc = "check"
    /\ p1_pc' = IF ~Exists(disk, "dip.txt") \/ ~Exists(disk, "Mtot.xvg")
                THEN "write_tmp" ELSE "compute_P1"
    /\ UNCHANGED <<opyvars, psvars, disk, gmx, stale, loaded>>

\* lines 24-25
P1WriteTmp ==
    /\ p1_pc = "write_tmp"
    /\ disk' = WriteFile(disk, "tmp.tmp")
    /\ p1_pc' = "open_dip"
    /\ UNCHANGED <<opyvars, psvars, gmx, stale, loaded>>

\* line 28
P1OpenDip ==
    /\ p1_pc = "open_dip"
    /\ disk' = WriteFile(disk, "dip.txt")
    /\ p1_pc' = "gmx"
    /\ UNCHANGED <<opyvars, psvars, gmx, stale, loaded>>

\* line 29: gmx dipoles ends with status 0, having written Mtot.xvg
P1GmxSucceeds ==
    /\ p1_pc = "gmx"
    /\ gmx = "ok"
    /\ disk' = WriteFile(disk, "Mtot.xvg")
    /\ p1_pc' = "remove_tmp"
    /\ UNCHANGED <<opyvars, psvars, gmx, stale, loaded>>

\* lines 29, 34-39: subprocess.run raises, sys.exit(1)
P1GmxFails ==
    /\ p1_pc = "gmx"
    /\ gmx # "ok"
    /\ p1_pc' = "exit_1"
    /\ UNCHANGED <<opyvars, psvars, disk, gmx, stale, loaded>>

\* lines 31-32
P1RemoveTmp ==
    /\ p1_pc = "remove_tmp"
    /\ disk' = RemoveIfExists(disk, "tmp.tmp")
    /\ p1_pc' = "compute_P1"
    /\ UNCHANGED <<opyvars, psvars, gmx, stale, loaded>>

\* lines 111, 60-74: compute_P1 reads Mtot.xvg and dip.txt and writes P1.csv;
\* open raises when a file to read is missing
P1Compute ==
    /\ p1_pc = "compute_P1"
    /\ IF Exists(disk, "Mtot.xvg") /\ Exists(disk, "dip.txt")
       THEN /\ loaded' = {disk["Mtot.xvg"], disk["dip.txt"]}
            /\ disk' = WriteFile(disk, "P1.csv")
            /\ p1_pc' = "done"
       ELSE /\ p1_pc' = "FileNotFoundError"
            /\ UNCHANGED <<disk, loaded>>
    /\ UNCHANGED <<opyvars, psvars, gmx, stale>>

NextP1 ==
    \/ P1RemoveStale
    \/ P1RemoveDone
    \/ P1Check
    \/ P1WriteTmp
    \/ P1OpenDip
    \/ P1GmxSucceeds
    \/ P1GmxFails
    \/ P1RemoveTmp
    \/ P1Compute

SpecP1 == InitP1 /\ [][NextP1]_vars

(***************************************************************************)
(* Properties                                                              *)
(***************************************************************************)
FrameIndices == 1..n_frames

MoleculeIndices == 1..n_molecules

ZeroDirector == Vec(0, 0, 0)

\* compute_Q_tensor has returned its array
QReturned == pc \in {"OP_frame", "OP_legendre", "done", "LinAlgError"}

\* the frame holds at least one director and no zero-norm director
ValidFrame(f) ==
    /\ n_molecules >= 1
    /\ \A m \in MoleculeIndices : all_directors[f][m] # ZeroDirector

\* frame f has been through lines 46-60
Evaluated(f) == pc \in {"OP_frame", "OP_legendre", "done"} /\ f < i

\* the raw director of molecule m of frame f divided by its Euclidean norm
UnitDirector(f, m) ==
    LET raw == all_directors[f][m]
        sq == RAdd(RAdd(RMul(raw[1], raw[1]), RMul(raw[2], raw[2])), RMul(raw[3], raw[3]))
    IN [a \in 1..3 |-> RDiv(raw[a], RSqrt(sq))]

Delta(a, b) == IF a = b THEN R(1) ELSE R(0)

\* (1/(2N)) * sum over the molecules of frame f of 3 v[a] v[b] - delta_ab
QFormula(f, a, b) ==
    RMul(Frac(1, 2 * n_molecules),
         RSum([m \in MoleculeIndices |->
                 RSub(RMul(R(3), RMul(UnitDirector(f, m)[a], UnitDirector(f, m)[b])),
                      Delta(a, b))]))

\* C1: for every frame with N >= 1 non-zero directors the tensor returned by
\* compute_Q_tensor is Q_ab = (1/(2N)) * sum_i (3 v_i[a] v_i[b] - delta_ab),
\* v_i the raw director of molecule i divided by its norm.
C1_QTensorFormula ==
    QReturned =>
        \A f \in FrameIndices : ValidFrame(f) =>
            \A a, b \in 1..3 : REq(Q_ab[f][a][b], QFormula(f, a, b))

\* a returned tensor of a valid frame of two different directors
C1_Witness ==
    /\ QReturned
    /\ \E f \in FrameIndices :
          /\ ValidFrame(f)
          /\ n_molecules >= 2
          /\ all_directors[f][1] # all_directors[f][2]

\* C2: the trace of the returned Q tensor of every frame with N >= 1 non-zero
\* directors is zero.
C2_Traceless ==
    QReturned =>
        \A f \in FrameIndices : ValidFrame(f) =>
            REq(RAdd(RAdd(Q_ab[f][1][1], Q_ab[f][2][2]), Q_ab[f][3][3]), R(0))

\* a returned tensor of a valid frame that holds a raw director of length 2 or 5
C2_Witness ==
    /\ QReturned
    /\ \E f \in FrameIndices :
          /\ ValidFrame(f)
          /\ \E m \in MoleculeIndices : all_directors[f][m] \in {Vec(0, 0, 2), Vec(3, 4, 0)}
          /\ Q_ab[f][3][3] # R(0)

\* C3: the Q tensor of every frame with N >= 1 non-zero directors is symmetric
\* after every accumulation step and after the final division.
C3_Symmetric ==
    \A f \in FrameIndices : ValidFrame(f) =>
        \A a, b \in 1..3 : REq(Q_ab[f][a][b], Q_ab[f][b][a])

\* in the middle of a frame's accumulation, with a non-zero off-diagonal entry
C3_Witness ==
    /\ pc = "Q_vector"
    /\ k > 1
    /\ k <= Len(normed_vectors)
    /\ ValidFrame(n)
    /\ Q_ab[n][1][2] # R(0)

\* the Rayleigh quotient u.Qu of a unit vector u
Rayleigh(Q, u) ==
    RAdd(RAdd(RMul(u[1], Dot(Q[1], u)), RMul(u[2], Dot(Q[2], u))), RMul(u[3], Dot(Q[3], u)))

\* C4: the global director of a frame (with N >= 1 non-zero directors) is an
\* eigenvector of the frame's Q tensor, and no eigenvalue of Q is greater than
\* its eigenvalue: Q d = lambda d, and neither an eigenvalue returned by eigh
\* nor the Rayleigh quotient of any unit vector exceeds lambda.
C4_LargestEigenvector ==
    (pc = "OP_legendre" /\ ValidFrame(i)) =>
        LET Q == Q_ab[i]
            d == global_director
            lambda == Rayleigh(Q, d)
        IN /\ \A a \in 1..3 : REq(Dot(Q[a], d), RMul(lambda, d[a]))
           /\ \A j \in 1..3 : RLe(eigenvalues[j], lambda)
           /\ \A u \in UnitVectors : RLe(Rayleigh(Q, u), lambda)

\* a frame whose largest eigenvalue is greater than its smallest has been
\* diagonalised
C4_Witness ==
    /\ pc = "OP_legendre"
    /\ ValidFrame(i)
    /\ RLt(eigenvalues[1], eigenvalues[3])

\* the cosine of molecule m of frame f against the director the frame was
\* evaluated with
Cosine(f, m) ==
    LET v == all_directors[f][m]
        d == used_director[f]
    IN RAdd(RAdd(RMul(v[1], d[1]), RMul(v[2], d[2])), RMul(v[3], d[3]))

\* C5: P1..P4 of a frame are the arithmetic means over its molecules of cos,
\* (3cos^2 - 1)/2, (5cos^3 - 3cos)/2 and (35cos^4 - 30cos^2 + 3)/8, cos the dot
\* product of the molecule's director with the frame's global director.
C5_LegendreMeans ==
    \A f \in FrameIndices : (Evaluated(f) /\ n_molecules >= 1) =>
        LET c(m) == Cosine(f, m)
            c2(m) == RMul(c(m), c(m))
            N == R(n_molecules)
        IN /\ RMul(N, P1[f]) = RSum([m \in MoleculeIndices |-> c(m)])
           /\ RMul(N, P2[f]) =
                 RSum([m \in MoleculeIndices |-> RMul(Frac(1, 2), RSub(RMul(R(3), c2(m)), R(1)))])
           /\ RMul(N, P3[f]) =
                 RSum([m \in MoleculeIndices |->
                         RMul(Frac(1, 2), RSub(RMul(R(5), RMul(c2(m), c(m))), RMul(R(3), c(m))))])
           /\ RMul(N, P4[f]) =
                 RSum([m \in MoleculeIndices |->
                         RMul(Frac(1, 8),
                              RAdd(RSub(RMul(R(35), RMul(c2(m), c2(m))), RMul(R(30), c2(m))),
                                   R(3)))])

\* all frames evaluated, one of them with two molecules at different angles to
\* the global director
C5_Witness ==
    /\ pc = "done"
    /\ n_molecules >= 2
    /\ \E f \in FrameIndices :
          /\ Finite(P4[f])
          /\ Cosine(f, 1) # Cosine(f, 2)

InRange(x, lo, hi) == RLe(lo, x) /\ RLe(x, hi)

\* C6: for every frame of non-zero directors of any length, run through
\* compute_Q_tensor and compute_order_parameters, -0.5 <= P2 <= 1,
\* -1 <= P1 <= 1 and -1 <= P3 <= 1.
C6_Ranges ==
    pc = "done" =>
        \A f \in FrameIndices : ValidFrame(f) =>
            /\ InRange(P2[f], Frac(-1, 2), R(1))
            /\ InRange(P1[f], R(-1), R(1))
            /\ InRange(P3[f], R(-1), R(1))

\* every director of frame g is the director of frame f at the same place
\* multiplied by a positive scalar
ScaledFrame(f, g) ==
    \A m \in MoleculeIndices :
        /\ all_directors[f][m] # ZeroDirector
        /\ \E c \in {R(1), R(2)} : all_directors[g][m] = VScale(all_directors[f][m], c)

\* C7: multiplying raw directors of a frame by positive scalars changes neither
\* the frame's Q tensor nor, for the same global director, its P1, P2, P3, P4.
C7_ScaleInvariant ==
    pc = "done" =>
        \A f, g \in FrameIndices : (n_molecules >= 1 /\ ScaledFrame(f, g)) =>
            /\ Q_ab[f] = Q_ab[g]
            /\ used_director[f] = used_director[g] =>
                  /\ P1[f] = P1[g]
                  /\ P2[f] = P2[g]
                  /\ P3[f] = P3[g]
                  /\ P4[f] = P4[g]

HasDegenerateDirector ==
    \E f \in FrameIndices : \E m \in MoleculeIndices : all_directors[f][m] = ZeroDirector

\* C8: a trajectory with a zero-norm director is rejected: compute_Q_tensor
\* returns no tensor for it and no order parameter is computed from it.
C8_DegenerateRejected == HasDegenerateDirector => ~QReturned

\* C9: a trajectory of frames with zero molecules is rejected: compute_Q_tensor
\* neither divides by 2N = 0 nor returns a tensor for it.
C9_EmptyFrameRejected == n_molecules = 0 => ~QReturned

\* C10: when the eigen-decomposition fails for frame i, P1..P4 are still
\* produced for every other frame (here: every other frame of N >= 1 non-zero
\* directors, whose own computation cannot fail).
C10_FailureIsolated ==
    pc = "LinAlgError" =>
        \A j \in FrameIndices : (j # i /\ ValidFrame(j)) =>
            /\ P1[j] # Unwritten
            /\ P2[j] # Unwritten
            /\ P3[j] # Unwritten
            /\ P4[j] # Unwritten

(***************************************************************************)
(* What the pipeline computes from one frame alone                         *)
(***************************************************************************)
RECURSIVE TensorSum(_, _)
\* the accumulated tensor of the first j of the vectors
TensorSum(vectors, j) ==
    IF j = 0 THEN ZeroMatrix ELSE AccumulateVector(TensorSum(vectors, j - 1), vectors[j])

\* the Q tensor of a frame taken by itself
FrameTensor(frame) ==
    MatDiv(TensorSum(NormalizeDirectors(frame), Len(frame)), QDivisor(Len(frame)))

\* P1..P4 of a frame taken by itself, against the global director d
FrameParameters(frame, d) ==
    LET c == CosThetas(frame, d)
    IN <<Mean([m \in 1..Len(c) |-> Legendre1(c[m])]),
         Mean([m \in 1..Len(c) |-> Legendre2(c[m])]),
         Mean([m \in 1..Len(c) |-> Legendre3(c[m])]),
         Mean([m \in 1..Len(c) |-> Legendre4(c[m])])>>

\* the four results stored for frame f
Stored(f) == <<P1[f], P2[f], P3[f], P4[f]>>

ResultsAllocated == pc \in {"OP_frame", "OP_legendre", "done"}

\* C11: outputs are in frame-index order and each result slot is written
\* exactly once: when the arrays are returned, slot f of P1..P4 and slice f of
\* Q hold what frame f of the input gives; a step changes a slot of P1..P4
\* only if it is the step of lines 57-60 for that frame, the slot was
\* unassigned before and is assigned after.
C11_FrameOrder ==
    /\ [](pc = "done" =>
            \A f \in FrameIndices :
                /\ Q_ab[f] = FrameTensor(all_directors[f])
                /\ Stored(f) = FrameParameters(all_directors[f], used_director[f])
                /\ \A j \in 1..4 : Stored(f)[j] # Unwritten)
    /\ [][ResultsAllocated =>
            \A f \in FrameIndices :
                IF pc = "OP_legendre" /\ f = i
                THEN /\ \A j \in 1..4 : Stored(f)[j] = Unwritten
                     /\ \A j \in 1..4 : Stored(f)'[j] # Unwritten
                ELSE Stored(f)' = Stored(f)]_vars

\* the arrays are returned for a trajectory of at least two frames that give
\* different order parameters
C11_Witness ==
    /\ pc = "done"
    /\ n_frames >= 2
    /\ n_molecules >= 1
    /\ Stored(1) # Stored(2)

\* C12: the Q tensor and P1..P4 of a frame depend on that frame alone: they are
\* what the frame gives taken by itself (with the global director eigh
\* returned for it), whatever the other frames of the trajectory hold, and two
\* frames with the same directors get the same tensor and, for the same global
\* director, the same P1..P4.
C12_FrameIndependence ==
    /\ QReturned =>
          \A f \in FrameIndices : Q_ab[f] = FrameTensor(all_directors[f])
    /\ \A f \in FrameIndices : Evaluated(f) =>
          /\ Stored(f) = FrameParameters(all_directors[f], used_director[f])
          /\ \A g \in FrameIndices :
                (/\ Evaluated(g)
                 /\ all_directors[g] = all_directors[f]
                 /\ used_director[g] = used_director[f]) => Stored(g) = Stored(f)

\* the first and the last of three frames are the same, the middle one is not,
\* and all three have been evaluated
C12_Witness ==
    /\ pc = "done"
    /\ n_frames = 3
    /\ n_molecules >= 1
    /\ all_directors[1] = all_directors[3]
    /\ all_directors[2] # all_directors[1]
    /\ Q_ab[2] # Q_ab[1]
    /\ Finite(P2[1])

\* C13: reversing every director of a frame leaves the frame's Q tensor, its
\* eigenvalues, P2 and P4 unchanged and turns P1 and P3 into their negatives
\* (P1..P4 compared for the same global director: the solver is given the
\* same matrix twice).
C13_SignReversal ==
    pc = "done" =>
        \A f, g \in FrameIndices :
            (ValidFrame(f) /\ all_directors[g] = Negated(all_directors[f])) =>
                /\ Q_ab[g] = Q_ab[f]
                /\ used_eigenvalues[g] = used_eigenvalues[f]
                /\ used_director[g] = used_director[f] =>
                      /\ P2[g] = P2[f]
                      /\ P4[g] = P4[f]
                      /\ P1[g] = RSub(R(0), P1[f])
                      /\ P3[g] = RSub(R(0), P3[f])

\* a frame of two different directors and its mirror image, evaluated with the
\* same global director, with P1 and P3 different from zero
C13_Witness ==
    /\ pc = "done"
    /\ n_molecules >= 2
    /\ ValidFrame(1)
    /\ all_directors[1][1] # all_directors[1][2]
    /\ all_directors[2] = Negated(all_directors[1])
    /\ used_director[2] = used_director[1]
    /\ P1[1] # R(0)
    /\ P3[1] # R(0)

\* all directors of frame f are one and the same vector of length 1
AllSameUnit(f) ==
    /\ n_molecules >= 1
    /\ \A m \in MoleculeIndices : all_directors[f][m] = all_directors[f][1]
    /\ Dot(all_directors[f][1], all_directors[f][1]) = R(1)

\* C14 as stated: a frame whose directors all equal the same unit vector gets
\* P1 = P2 = P3 = P4 = 1, whichever sign the eigensolver gives the eigenvector.
C14_AlignedAllOne ==
    \A f \in FrameIndices : (Evaluated(f) /\ AllSameUnit(f)) =>
        /\ P1[f] = R(1)
        /\ P2[f] = R(1)
        /\ P3[f] = R(1)
        /\ P4[f] = R(1)

\* C14 amended: such a frame gets P2 = P4 = 1, and P1 = P3 = 1 when the selected
\* eigenvector is the common director, P1 = P3 = -1 when it is its opposite.
C14_AlignedUpToSign ==
    \A f \in FrameIndices : (Evaluated(f) /\ AllSameUnit(f)) =>
        /\ P2[f] = R(1)
        /\ P4[f] = R(1)
        /\ \/ /\ used_director[f] = all_directors[f][1]
              /\ P1[f] = R(1)
              /\ P3[f] = R(1)
           \/ /\ used_director[f] = VScale(all_directors[f][1], R(-1))
              /\ P1[f] = R(-1)
              /\ P3[f] = R(-1)

\* a frame of two equal unit directors evaluated with the opposite eigenvector
C14_Witness ==
    \E f \in FrameIndices :
        /\ Evaluated(f)
        /\ AllSameUnit(f)
        /\ n_molecules >= 2
        /\ used_director[f] = VScale(all_directors[f][1], R(-1))

\* all directors of frame f are (0,0,1)
AllAlongZ(f) ==
    /\ n_molecules >= 1
    /\ \A m \in MoleculeIndices : all_directors[f][m] = Vec(0, 0, 1)

\* C15: a frame whose directors all equal (0,0,1) gets Q_zz = 1,
\* Q_xx = Q_yy = -0.5 and zero off-diagonal entries, and its global director
\* is (0,0,1) or (0,0,-1).
C15_AlignedAlongZ ==
    \A f \in FrameIndices : AllAlongZ(f) =>
        /\ QReturned =>
              Q_ab[f] = <<<<Frac(-1, 2), R(0), R(0)>>,
                          <<R(0), Frac(-1, 2), R(0)>>,
                          <<R(0), R(0), R(1)>>>>
        /\ (pc = "OP_legendre" /\ f = i) =>
              global_director \in {Vec(0, 0, 1), Vec(0, 0, -1)}
        /\ Evaluated(f) => used_director[f] \in {Vec(0, 0, 1), Vec(0, 0, -1)}

\* a frame of three or more directors (0,0,1) has been evaluated
C15_Witness ==
    \E f \in FrameIndices :
        /\ AllAlongZ(f)
        /\ n_molecules >= 3
        /\ Evaluated(f)

\* frame f holds only the six unit vectors along the axes, each of them the
\* same number of times
Isotropic(f) ==
    /\ n_molecules >= 1
    /\ \A m \in MoleculeIndices : \E a \in 1..6 : all_directors[f][m] = SixAxes[a]
    /\ \A a, b \in 1..6 :
          Cardinality({m \in MoleculeIndices : all_directors[f][m] = SixAxes[a]})
             = Cardinality({m \in MoleculeIndices : all_directors[f][m] = SixAxes[b]})

\* C16: a frame made of +x, -x, +y, -y, +z, -z, each the same number of times,
\* gets the zero tensor and P2 = 0, whichever eigenvector is selected.
C16_Isotropic ==
    \A f \in FrameIndices : Isotropic(f) =>
        /\ QReturned => Q_ab[f] = ZeroMatrix
        /\ Evaluated(f) => P2[f] = R(0)

\* such a frame has been evaluated with an eigenvector that lies off the axes
C16_Witness ==
    \E f \in FrameIndices :
        /\ Isotropic(f)
        /\ Evaluated(f)
        /\ used_director[f] = <<Frac(-3, 5), Frac(-4, 5), R(0)>>

\* C17: a second run on the same array returns the P1, P2, P3, P4 the first
\* run returned, and no step of either run modifies the input array.
C17_Deterministic ==
    /\ [][all_directors' = all_directors]_vars
    /\ []((pc = "done" /\ run = 2) =>
             /\ all_directors = first.all_directors
             /\ P1 = first.P1 /\ P2 = first.P2 /\ P3 = first.P3 /\ P4 = first.P4)

\* a second run has returned for two frames of non-unit directors, the first
\* of them evaluated with a director that makes P1 negative
C17_Witness ==
    /\ pc = "done"
    /\ run = 2
    /\ n_frames = 2
    /\ \A f \in FrameIndices : ValidFrame(f) /\ all_directors[f][1] = Vec(0, 0, 2)
    /\ RLt(P1[1], R(0))

\* C18: the global director of every frame of non-degenerate directors has
\* Euclidean norm 1 when the cosines are computed from it.
C18_UnitNorm ==
    /\ (pc = "OP_legendre" /\ ValidFrame(i)) =>
          REq(Dot(global_director, global_director), R(1))
    /\ \A f \in FrameIndices : (Evaluated(f) /\ ValidFrame(f)) =>
          REq(Dot(used_director[f], used_director[f]), R(1))

\* the cosines of a frame are about to be computed from a director with
\* two non-zero components
C18_Witness ==
    /\ pc = "OP_legendre"
    /\ ValidFrame(i)
    /\ global_director = <<Frac(-3, 5), Frac(-4, 5), R(0)>>

\* the frames of the input differ in length
RaggedInput == \E f, g \in 1..Len(all_directors) : Len(all_directors[f]) # Len(all_directors[g])

\* some vector of the input does not have three components
WrongAxisInput ==
    \E f \in 1..Len(all_directors) : \E m \in 1..Len(all_directors[f]) :
        Len(all_directors[f][m]) # 3

\* C19: an input whose frames differ in length, or whose vectors do not have
\* three components, is rejected at entry: no tensor array is allocated, no
\* frame is normalised, accumulated or diagonalised, no result is stored.
C19_ShapeRejected ==
    (RaggedInput \/ WrongAxisInput) =>
        /\ pc \in {"Q_entry", "ValueError"}
        /\ Q_ab = <<>>
        /\ normed_vectors = <<>>
        /\ eigenvalues = <<>>
        /\ P1 = <<>> /\ P2 = <<>> /\ P3 = <<>> /\ P4 = <<>>
        /\ used_director = <<>>

\* an input of three-component vectors whose second frame is longer than its
\* first has been rejected
C19_Witness ==
    /\ pc = "ValueError"
    /\ ~WrongAxisInput
    /\ Len(all_directors[1]) = 1
    /\ Len(all_directors[2]) = 2

\* C20: when the returned arrays hold no result for some frame (a frame of
\* N >= 1 directors with a degenerate one, for which every parameter is NaN)
\* and finite results for another, the value handed to the caller has a
\* component beside the four per-frame arrays, the summary of the failed
\* frames.
C20_SkippedSummary ==
    (/\ pc = "done"
     /\ \E f \in FrameIndices : \A c \in 1..4 : IsNaN(ReturnValue[c][f])
     /\ \E g \in FrameIndices : \A c \in 1..4 : Finite(ReturnValue[c][g]))
    => Len(ReturnValue) > 4

\* C21: the value handed to the caller holds, beside the order parameters,
\* the three eigenvalues of every frame and the global director of every
\* frame.
C21_SpectrumExposed ==
    (pc = "done" /\ \E f \in FrameIndices : ValidFrame(f)) =>
        /\ \E c \in 1..Len(ReturnNames) : ReturnNames[c] = "eigenvalues"
        /\ \E c \in 1..Len(ReturnNames) : ReturnNames[c] = "global_director"

\* the indices of w that hold its maximum
Tied(w) == {j \in 1..Len(w) : \A l \in 1..Len(w) : RLe(w[l], w[j])}

\* C22: when two or three eigenvalues of a frame are equal and maximal, the
\* index selected is the lowest of the tied ones, the director is an
\* eigenvector for the eigenvalue at that index, and a second run on the same
\* tensor selects the same index and the same director.
C22_TieBreak ==
    (pc = "OP_legendre" /\ ValidFrame(i) /\ Cardinality(Tied(eigenvalues)) >= 2) =>
        /\ max_index \in Tied(eigenvalues)
        /\ \A j \in Tied(eigenvalues) : max_index <= j
        /\ MatVec(Q_ab[i], global_director)
              = VScale(global_director, eigenvalues[max_index])
        /\ run = 2 =>
              /\ eigenvalues = first.eigenvalues[i]
              /\ global_director = first.global_director[i]

\* a second run has selected, among three equal eigenvalues, the first index
\* and with it an eigenvector off the axes
C22_Witness ==
    /\ pc = "OP_legendre"
    /\ run = 2
    /\ ValidFrame(i)
    /\ Cardinality(Tied(eigenvalues)) = 3
    /\ max_index = 1
    /\ global_director = <<Frac(3, 5), Frac(4, 5), R(0)>>

\* how far frame f has come: 0 raw, 1 normalised (its tensor being summed or
\* summed but not divided), 2 tensor complete, 3 diagonalised, 4 order
\* parameters stored
Stage(f) ==
    IF pc \in {"Q_frame", "Q_vector"}
    THEN (IF f < n \/ (f = n /\ pc = "Q_vector") THEN 1 ELSE 0)
    ELSE IF f < i THEN 4
    ELSE IF f = i /\ pc = "OP_legendre" THEN 3
    ELSE 2

\* what the state holds for frame f is what its stage says
StageData(f) ==
    /\ Stage(f) = 0 => Q_ab[f] = ZeroMatrix
    /\ (Stage(f) = 1 /\ f = n) =>
          /\ normed_vectors = NormalizeDirectors(all_directors[f])
          /\ k <= Len(normed_vectors) + 1
          /\ Q_ab[f] = TensorSum(normed_vectors, k - 1)
    /\ (Stage(f) = 1 /\ f < n) =>
          Q_ab[f] = TensorSum(NormalizeDirectors(all_directors[f]), n_molecules)
    /\ Stage(f) >= 2 => Q_ab[f] = FrameTensor(all_directors[f])
    /\ Stage(f) \in {2, 3} => \A c \in 1..4 : Stored(f)[c] = Unwritten
    /\ (Stage(f) = 3 /\ ValidFrame(f)) =>
          MatVec(Q_ab[f], global_director) = VScale(global_director, eigenvalues[3])
    /\ Stage(f) = 4 =>
          /\ \A c \in 1..4 : Stored(f)[c] # Unwritten
          /\ Stored(f) = FrameParameters(all_directors[f], used_director[f])

\* C23: every frame goes through raw, normalised, tensor, diagonalised, order
\* parameters in this order, one stage at a time and never back; its tensor
\* holds all N molecules and the division by 2N before it is diagonalised,
\* its order parameters are stored only after its diagonalisation, and when
\* the arrays are returned every frame has reached the last stage.
C23_StageOrder ==
    /\ [](\A f \in FrameIndices : StageData(f))
    /\ [](pc = "done" => \A f \in FrameIndices : Stage(f) = 4)
    /\ [][\A f \in FrameIndices : Stage(f)' \in {Stage(f), Stage(f) + 1}]_vars

\* of three frames the first has its order parameters, the second is
\* diagonalised and the third has its complete tensor
C23_Witness ==
    /\ n_frames = 3
    /\ \A f \in FrameIndices : ValidFrame(f)
    /\ Stage(1) = 4 /\ Stage(2) = 3 /\ Stage(3) = 2

\* C24: no step of compute_Q_tensor or compute_order_parameters changes the
\* caller's director array, and no step of compute_order_parameters changes
\* the caller's Q tensor array.
C24_NoSideEffects ==
    /\ [][all_directors' = all_directors]_vars
    /\ [][(pc = "OP_frame" \/ pc = "OP_legendre") => Q_ab' = Q_ab]_vars

\* both calls have returned for two frames of directors that are not of unit
\* length, which the normalisation of line 15 has therefore changed
C24_Witness ==
    /\ pc = "done"
    /\ n_frames = 2
    /\ n_molecules = 1
    /\ all_directors[1][1] = Vec(0, 0, 2)
    /\ all_directors[2][1] = Vec(3, 4, 0)
    /\ global_director = <<Frac(3, 5), Frac(4, 5), R(0)>>

\* C25: both functions terminate; the frame loops take the frames one by one
\* in index order, each once (a frame is left only after its last molecule
\* and never come back to), and the inner loop takes each molecule of the
\* frame once; eigh always returns or raises; once the run is over nothing
\* more happens.
C25_Terminates ==
    /\ <>Terminated
    /\ []((pc = "OP_frame" /\ i <= n_frames) =>
             (Eigh(Q_ab[i]) # {} \/ EighMayRaise(Q_ab[i])))
    /\ [][/\ (pc = "Q_frame" /\ pc' = "Q_vector") => (n' = n /\ n <= n_frames /\ k' = 1)
          /\ (pc = "Q_vector" /\ pc' = "Q_vector") =>
                (n' = n /\ k <= n_molecules /\ k' = k + 1)
          /\ (pc = "Q_vector" /\ pc' = "Q_frame") => (k = n_molecules + 1 /\ n' = n + 1)
          /\ (pc = "Q_frame" /\ pc' = "OP_frame") => (n = n_frames + 1 /\ i' = 1)
          /\ (pc = "OP_frame" /\ pc' = "OP_legendre") => (i' = i /\ i <= n_frames)
          /\ (pc = "OP_legendre" /\ pc' = "OP_frame") => i' = i + 1
          /\ (pc = "OP_frame" /\ pc' = "done") => i = n_frames + 1]_vars
    /\ [][~Terminated]_vars

\* both functions have returned for two frames of two molecules
C25_Witness ==
    /\ pc = "done"
    /\ n_frames = 2
    /\ n_molecules = 2
    /\ n = 3 /\ k = 3 /\ i = 3

\* the parameter array written under each name
Written(name) ==
    IF name = "P1" THEN P1 ELSE IF name = "P2" THEN P2 ELSE IF name = "P3" THEN P3 ELSE P4

\* C26: when main ends, four tables P1, P2, P3, P4 are written; each has one
\* row per frame, row r holding the time of frame r and that frame's
\* parameter, so the four have the same number of rows and the same time
\* column.
C26_Tables ==
    pc = "exit" =>
        /\ DOMAIN files = {"P1", "P2", "P3", "P4"}
        /\ \A name \in DOMAIN files :
              /\ Len(files[name].rows) = n_frames
              /\ \A r \in FrameIndices :
                    /\ files[name].rows[r][1] = times[r]
                    /\ files[name].rows[r][2] = Written(name)[r]
        /\ \A name, other \in DOMAIN files : \A r \in FrameIndices :
              files[name].rows[r][1] = files[other].rows[r][1]

\* the four tables are written for three frames whose P2 differ between the
\* first and the last, at times 0, 5, 10
C26_Witness ==
    /\ pc = "exit"
    /\ n_frames = 3
    /\ times = <<R(0), R(5), R(10)>>
    /\ \A f \in FrameIndices : ValidFrame(f)
    /\ P2[1] # P2[3]

\* frame f holds at least one director and only directors of unit length
AllUnit(f) ==
    /\ n_molecules >= 1
    /\ \A m \in MoleculeIndices : Dot(all_directors[f][m], all_directors[f][m]) = R(1)

\* C27: for a frame of unit directors the P2 returned is the largest
\* eigenvalue of the frame's Q tensor, d.Qd for the director d the frame was
\* evaluated with.
C27_P2IsLargestEigenvalue ==
    \A f \in FrameIndices : (AllUnit(f) /\ Evaluated(f)) =>
        /\ P2[f] = Rayleigh(Q_ab[f], used_director[f])
        /\ \E j \in 1..3 : P2[f] = used_eigenvalues[f][j]
        /\ \A j \in 1..3 : RLe(used_eigenvalues[f][j], P2[f])

\* a frame of three unit directors, not all along one line, has been
\* evaluated; its P2 is 1/2
C27_Witness ==
    /\ n_molecules = 3
    /\ AllUnit(1)
    /\ Evaluated(1)
    /\ P2[1] = Frac(1, 2)

\* C28: for a frame of unit directors the P2 returned is never negative: it
\* lies between 0 and 1.
C28_P2NonNegative ==
    \A f \in FrameIndices : (AllUnit(f) /\ Evaluated(f)) =>
        /\ RLe(R(0), P2[f])
        /\ RLe(P2[f], R(1))

\* a frame of the unit directors x, y and z has been evaluated: its P2 is 0,
\* the lower end of the range
C28_Witness ==
    /\ n_molecules = 3
    /\ all_directors[1] = <<Vec(1, 0, 0), Vec(0, 1, 0), Vec(0, 0, 1)>>
    /\ Evaluated(1)
    /\ P2[1] = R(0)

\* C29: after the truncation of lines 99-101 time, TotDip and Vol have the
\* same length, the window of line 97 (the least of the window given and the
\* two lengths), and entry r of each is the sample r places from the end of
\* its file.
C29_WindowLengths ==
    ps_pc = "final" =>
        /\ Len(time) = window
        /\ Len(TotDip) = window
        /\ Len(Vol) = window
        /\ \A r \in 1..Len(time) : \E rows \in 1..MaxSamples :
              /\ time[Len(time) + 1 - r] = rows + 1 - r
              /\ TotDip[Len(time) + 1 - r] = rows + 1 - r
        /\ \A r \in 1..Len(Vol) : \E rows \in 1..MaxSamples :
              Vol[Len(Vol) + 1 - r] = rows + 1 - r

\* C30: when the check of line 107 is reached dip.txt, Mtot.xvg and P1.csv
\* are gone, so the check always leads into run_gmx_dipoles; compute_P1 is
\* entered only from a gmx dipoles that succeeded, and the files it reads were
\* written by this invocation; when gmx dipoles fails the program exits
\* having read nothing and with no P1.csv.
C30_FreshFiles ==
    /\ [](p1_pc = "check" =>
             \A f \in {"dip.txt", "Mtot.xvg", "P1.csv"} : ~Exists(disk, f))
    /\ [][p1_pc = "check" => p1_pc' = "write_tmp"]_vars
    /\ [][p1_pc' = "compute_P1" => (p1_pc = "remove_tmp" /\ gmx = "ok")]_vars
    /\ [](p1_pc = "compute_P1" =>
             (Exists(disk, "dip.txt") /\ Exists(disk, "Mtot.xvg")
              /\ disk["dip.txt"] = "this" /\ disk["Mtot.xvg"] = "this"))
    /\ [](loaded \subseteq {"this"})
    /\ [](p1_pc = "exit_1" =>
             (gmx # "ok" /\ loaded = {} /\ ~Exists(disk, "P1.csv")))

\* compute_P1 has read the two files and written P1.csv, all three by this
\* invocation, and tmp.tmp is removed
C30_Witness ==
    /\ p1_pc = "done"
    /\ loaded = {"this"}
    /\ DOMAIN disk = {"dip.txt", "Mtot.xvg", "P1.csv"}
    /\ \A f \in DOMAIN disk : disk[f] = "this"

====
